---- MODULE Spec2Model ----
(***************************************************************************)
(* A model of the arrow2 kernels in src/: the binary/utf8 take kernel      *)
(* (compute/take/generic_binary.rs), GrowableNull (array/growable/null.rs),*)
(* the BooleanArray FFI bridge (array/boolean/ffi.rs), the remainder       *)
(* kernels (compute/arithmetics/basic/rem.rs), the primitive casts         *)
(* (compute/cast/primitive_to.rs) and the Boolean and Struct scalars       *)
(* (scalar/boolean.rs, scalar/struct_.rs).                                 *)
(*                                                                         *)
(* Rust slices are 0-based, TLA+ sequences 1-based: At(s, i) is s[i] of    *)
(* the source.  Option<T> is a sequence of length 0 (None) or 1 (Some).    *)
(***************************************************************************)
EXTENDS Integers, Sequences, FiniteSets, TLC

VARIABLES
    source, indices, taken,          \* the take kernel: arguments and result
    growable, requested, finished,   \* GrowableNull, the lengths asked of it, its last array
    array, descriptor, imported,     \* the FFI bridge: array, exported descriptor, import result
    lhs, rhs, result,                \* the remainder kernels: operands and what was returned
    from, cast,                      \* the casts: the array cast and what was returned
    scalars, comparison              \* the scalars built and the last == between two of them

takeVars == <<source, indices, taken>>
growableVars == <<growable, requested, finished>>
ffiVars == <<array, descriptor, imported>>
remVars == <<lhs, rhs, result>>
castVars == <<from, cast>>
scalarVars == <<scalars, comparison>>
vars == <<takeVars, growableVars, ffiVars, remVars, castVars, scalarVars>>

\* What each component leaves alone.
nonTakeVars == <<growableVars, ffiVars, remVars, castVars, scalarVars>>
nonGrowableVars == <<takeVars, ffiVars, remVars, castVars, scalarVars>>
nonFfiVars == <<takeVars, growableVars, remVars, castVars, scalarVars>>
nonRemVars == <<takeVars, growableVars, ffiVars, castVars, scalarVars>>
nonCastVars == <<takeVars, growableVars, ffiVars, remVars, scalarVars>>
nonScalarVars == <<takeVars, growableVars, ffiVars, remVars, castVars>>

(***************************************************************************)
(* Bounds of the model.                                                    *)
(***************************************************************************)
MaxSrcLen == 2
MaxIdxLen == 2
\* GrowableNull: the largest total length reached (usize::MAX in the code,
\* past which self.length += len overflows).
MaxTotal == 6
\* The bridge: the most bits a bitmap's storage holds.
MaxBits == 3
\* The remainder kernels and the casts: the longest array.
MaxArrayLen == 2
\* The scalars: how many are built.
MaxScalars == 3

(***************************************************************************)
(* Option, slices.                                                         *)
(***************************************************************************)
None == <<>>
Some(x) == <<x>>
IsSome(o) == Len(o) = 1
Unwrap(o) == o[1]

At(s, i) == s[i + 1]
InRange(s, i) == i < Len(s)
SliceOk(s, start, end) == start <= end /\ end <= Len(s)
Slice(s, start, end) == SubSeq(s, start + 1, end)

SeqsUpTo(S, n) == UNION {[1..k -> S] : k \in 0..n}
SeqsOfLen(S, n) == [1..n -> S]

RECURSIVE Concat(_)
Concat(ss) == IF ss = <<>> THEN <<>> ELSE Head(ss) \o Concat(Tail(ss))

RECURSIVE SumLens(_, _)
SumLens(ss, k) == IF k = 0 THEN 0 ELSE SumLens(ss, k - 1) + Len(ss[k])

(***************************************************************************)
(* Bitmaps.  A validity is Option<Bitmap>; None means every slot is valid. *)
(***************************************************************************)
null_count(bits) == Cardinality({i \in 1..Len(bits) : ~bits[i]})
HasNulls(validity) == IsSome(validity) /\ null_count(Unwrap(validity)) > 0
IsValid(validity, i) == ~IsSome(validity) \/ At(Unwrap(validity), i)

\* Bitmap::get_bit(i).  Inside the bitmap it is the bit.  Past its end the read
\* lands in the padding of the last byte or past the bytes: what it gives is
\* the caller-chosen outcome oob, one of OobReads.
OobReads == {"panic", "set", "unset"}
get_bit(bits, i, oob) ==
    IF InRange(bits, i) THEN (IF At(bits, i) THEN "set" ELSE "unset") ELSE oob

\* From<MutableBitmap> for Option<Bitmap>: None when no bit is unset.
IntoOptionBitmap(bits) == IF null_count(bits) > 0 THEN Some(bits) ELSE None

(***************************************************************************)
(* Binary arrays (offsets, values, validity) and index arrays.             *)
(* A source array may be a slice: its first offset is Base bytes into the  *)
(* values buffer.  An invalid element may still own bytes.                 *)
(***************************************************************************)
Elems == {<<>>, <<1>>, <<2, 3>>}
Bases == {0, 1}

OffsetsOf(es, base) == [i \in 1..(Len(es) + 1) |-> base + SumLens(es, i - 1)]
ValuesOf(es, base) == [i \in 1..base |-> 9] \o Concat(es)

Validities(n) == {None} \cup {Some(b) : b \in SeqsOfLen(BOOLEAN, n)}

BinaryArrays ==
    UNION {{[offsets |-> OffsetsOf(es, base), values |-> ValuesOf(es, base),
             validity |-> v] : base \in Bases, v \in Validities(Len(es))}
           : es \in SeqsUpTo(Elems, MaxSrcLen)}

\* Index payloads run one past the longest source, so that an index can be
\* out of range of every source.
IndexPayloads == 0..MaxSrcLen

IndexArrays ==
    UNION {{[values |-> iv, validity |-> v] : v \in Validities(Len(iv))}
           : iv \in SeqsUpTo(IndexPayloads, MaxIdxLen)}

ArrayLen(a) == Len(a.offsets) - 1
ElemBytes(a, i) == Slice(a.values, At(a.offsets, i), At(a.offsets, i + 1))

(***************************************************************************)
(* The take kernel.  Every path returns (offsets, values, validity) or     *)
(* panics on an out-of-bounds slice access.                                *)
(***************************************************************************)
Panicked == [panic |-> TRUE, offsets |-> <<>>, values |-> <<>>, validity |-> None]
Returned(offsets, values, validity) ==
    [panic |-> FALSE, offsets |-> offsets, values |-> values, validity |-> validity]

\* The state of a path's loop over the indices: the running length, the
\* offsets emitted so far (std::iter::once(O::default()) first), the starts
\* and validity pushed so far, and the bytes copied (take_no_validity only).
LoopStart ==
    [panic |-> FALSE, length |-> 0, offsets |-> <<0>>, starts |-> <<>>,
     validity |-> <<>>, buffer |-> <<>>]
LoopPanic == [LoopStart EXCEPT !.panic = TRUE]

RECURSIVE take_values_from(_, _, _, _)
take_values_from(k, starts, offsets, values) ==
    IF k > Len(starts) \/ k + 1 > Len(offsets) THEN Returned(<<>>, <<>>, None)
    ELSE LET start == starts[k]
             end == start + (offsets[k + 1] - offsets[k])
         IN IF ~SliceOk(values, start, end) THEN Panicked
            ELSE LET rest == take_values_from(k + 1, starts, offsets, values)
                 IN IF rest.panic THEN Panicked
                    ELSE Returned(<<>>, Slice(values, start, end) \o rest.values, None)

take_values(length, starts, offsets, values) ==
    take_values_from(1, starts, offsets, values)

\* take_no_validity_step with the offset emitted being the element's own
\* length instead of the running total.
take_no_validity_step_not_running(offsets, values, acc, index) ==
    IF ~InRange(offsets, index + 1) THEN LoopPanic
    ELSE LET start == At(offsets, index)
             length_h == At(offsets, index + 1) - start
             end == start + length_h
         IN IF ~SliceOk(values, start, end) THEN LoopPanic
            ELSE [acc EXCEPT !.length = length_h,
                             !.buffer = acc.buffer \o Slice(values, start, end),
                             !.offsets = Append(acc.offsets, length_h)]

\* take_no_validity, lines 47-57: one index of the closure.
take_no_validity_step(offsets, values, acc, index) ==
    IF ~InRange(offsets, index + 1) THEN LoopPanic
    ELSE LET start == At(offsets, index)
             length_h == At(offsets, index + 1) - start
             length == acc.length + length_h
             end == start + length_h
         IN IF ~SliceOk(values, start, end) THEN LoopPanic
            ELSE [acc EXCEPT !.length = length,
                             !.buffer = acc.buffer \o Slice(values, start, end),
                             !.offsets = Append(acc.offsets, length)]

RECURSIVE take_no_validity_loop(_, _, _, _, _)
take_no_validity_loop(offsets, values, idx, k, acc) ==
    IF acc.panic \/ k > Len(idx) THEN acc
    ELSE take_no_validity_loop(offsets, values, idx, k + 1,
                               take_no_validity_step(offsets, values, acc, idx[k]))

take_no_validity(offsets, values, idx) ==
    LET r == take_no_validity_loop(offsets, values, idx, 1, LoopStart)
    IN IF r.panic THEN Panicked ELSE Returned(r.offsets, r.buffer, None)

\* take_values_validity, lines 77-89: one index of the closure.
take_values_validity_step(null_values, offsets, acc, index, oob) ==
    LET bit == get_bit(null_values, index, oob)
    IN IF bit = "panic" THEN LoopPanic
       ELSE IF bit = "set"
       THEN IF ~InRange(offsets, index + 1) THEN LoopPanic
            ELSE LET start == At(offsets, index)
                     length == acc.length + (At(offsets, index + 1) - start)
                 IN [acc EXCEPT !.validity = Append(acc.validity, TRUE),
                                !.length = length,
                                !.starts = Append(acc.starts, start),
                                !.offsets = Append(acc.offsets, length)]
       ELSE [acc EXCEPT !.validity = Append(acc.validity, FALSE),
                        !.starts = Append(acc.starts, 0),
                        !.offsets = Append(acc.offsets, acc.length)]

RECURSIVE take_values_validity_loop(_, _, _, _, _, _)
take_values_validity_loop(null_values, offsets, idx, k, acc, oob) ==
    IF acc.panic \/ k > Len(idx) THEN acc
    ELSE take_values_validity_loop(null_values, offsets, idx, k + 1,
            take_values_validity_step(null_values, offsets, acc, idx[k], oob), oob)

take_values_validity(values, idx, oob) ==
    IF ~IsSome(values.validity) THEN Panicked
    ELSE LET r == take_values_validity_loop(Unwrap(values.validity), values.offsets,
                                            idx, 1, LoopStart, oob)
         IN IF r.panic THEN Panicked
            ELSE LET buffer == take_values(r.length, r.starts, r.offsets, values.values)
                 IN IF buffer.panic THEN Panicked
                    ELSE Returned(r.offsets, buffer.values, IntoOptionBitmap(r.validity))

\* take_indices_validity_step pushing the element's end as its start.
take_indices_validity_step_wrong_start(offsets, acc, index) ==
    IF InRange(offsets, index + 1)
    THEN LET next == At(offsets, index + 1)
             start == At(offsets, index)
             length == acc.length + (next - start)
         IN [acc EXCEPT !.length = length,
                        !.starts = Append(acc.starts, next),
                        !.offsets = Append(acc.offsets, length)]
    ELSE [acc EXCEPT !.starts = Append(acc.starts, 0),
                     !.offsets = Append(acc.offsets, acc.length)]

\* take_indices_validity_step indexing offsets[index + 1] instead of
\* offsets.get(index + 1).
take_indices_validity_step_indexing(offsets, acc, index) ==
    IF InRange(offsets, index + 1)
    THEN LET next == At(offsets, index + 1)
             start == At(offsets, index)
             length == acc.length + (next - start)
         IN [acc EXCEPT !.length = length,
                        !.starts = Append(acc.starts, start),
                        !.offsets = Append(acc.offsets, length)]
    ELSE LoopPanic

\* take_indices_validity, lines 107-118: one payload of indices.values(),
\* whether or not the index is valid.
take_indices_validity_step(offsets, acc, index) ==
    IF InRange(offsets, index + 1)
    THEN LET next == At(offsets, index + 1)
             start == At(offsets, index)
             length == acc.length + (next - start)
         IN [acc EXCEPT !.length = length,
                        !.starts = Append(acc.starts, start),
                        !.offsets = Append(acc.offsets, length)]
    ELSE [acc EXCEPT !.starts = Append(acc.starts, 0),
                     !.offsets = Append(acc.offsets, acc.length)]

RECURSIVE take_indices_validity_loop(_, _, _, _)
take_indices_validity_loop(offsets, idx, k, acc) ==
    IF acc.panic \/ k > Len(idx) THEN acc
    ELSE take_indices_validity_loop(offsets, idx, k + 1,
                                    take_indices_validity_step(offsets, acc, idx[k]))

take_indices_validity(offsets, values, idxArray) ==
    LET r == take_indices_validity_loop(offsets, idxArray.values, 1, LoopStart)
    IN IF r.panic THEN Panicked
       ELSE LET buffer == take_values(r.length, r.starts, r.offsets, values)
            IN IF buffer.panic THEN Panicked
               ELSE Returned(r.offsets, buffer.values, idxArray.validity)

\* take_values_indices_validity_step without the test of the source's bit.
take_values_indices_validity_step_no_bit(values_validity, offsets, acc, index, oob) ==
    IF IsSome(index)
    THEN IF ~InRange(offsets, Unwrap(index) + 1) THEN LoopPanic
         ELSE LET length == acc.length + (At(offsets, Unwrap(index) + 1)
                                          - At(offsets, Unwrap(index)))
              IN [acc EXCEPT !.validity = Append(acc.validity, TRUE),
                             !.length = length,
                             !.starts = Append(acc.starts, At(offsets, Unwrap(index))),
                             !.offsets = Append(acc.offsets, length)]
    ELSE [acc EXCEPT !.validity = Append(acc.validity, FALSE),
                     !.starts = Append(acc.starts, 0),
                     !.offsets = Append(acc.offsets, acc.length)]

\* take_values_indices_validity, lines 141-160: one item of indices.iter(),
\* Some(index) for a valid index and None for a null one.
take_values_indices_validity_step(values_validity, offsets, acc, index, oob) ==
    IF IsSome(index)
    THEN LET bit == get_bit(values_validity, Unwrap(index), oob)
         IN IF bit = "panic" THEN LoopPanic
            ELSE IF bit = "set"
            THEN IF ~InRange(offsets, Unwrap(index) + 1) THEN LoopPanic
                 ELSE LET length == acc.length + (At(offsets, Unwrap(index) + 1)
                                                  - At(offsets, Unwrap(index)))
                      IN [acc EXCEPT !.validity = Append(acc.validity, TRUE),
                                     !.length = length,
                                     !.starts = Append(acc.starts, At(offsets, Unwrap(index))),
                                     !.offsets = Append(acc.offsets, length)]
            ELSE [acc EXCEPT !.validity = Append(acc.validity, FALSE),
                             !.starts = Append(acc.starts, 0),
                             !.offsets = Append(acc.offsets, acc.length)]
    ELSE [acc EXCEPT !.validity = Append(acc.validity, FALSE),
                     !.starts = Append(acc.starts, 0),
                     !.offsets = Append(acc.offsets, acc.length)]

\* PrimitiveArray::iter(): the k-th item.
IterItem(idxArray, k) ==
    IF IsValid(idxArray.validity, k - 1) THEN Some(idxArray.values[k]) ELSE None

RECURSIVE take_values_indices_validity_loop(_, _, _, _, _, _)
take_values_indices_validity_loop(values_validity, offsets, idxArray, k, acc, oob) ==
    IF acc.panic \/ k > Len(idxArray.values) THEN acc
    ELSE take_values_indices_validity_loop(values_validity, offsets, idxArray, k + 1,
            take_values_indices_validity_step(values_validity, offsets, acc,
                                              IterItem(idxArray, k), oob), oob)

take_values_indices_validity(values, idxArray, oob) ==
    IF ~IsSome(values.validity) THEN Panicked
    ELSE LET r == take_values_indices_validity_loop(Unwrap(values.validity),
                        values.offsets, idxArray, 1, LoopStart, oob)
         IN IF r.panic THEN Panicked
            ELSE LET buffer == take_values(r.length, r.starts, r.offsets, values.values)
                 IN IF buffer.panic THEN Panicked
                    ELSE Returned(r.offsets, buffer.values, IntoOptionBitmap(r.validity))

(***************************************************************************)
(* The take state machine: a source and an index array are given, and one  *)
(* of the four paths, the one their null counts select, is run on them.    *)
(***************************************************************************)
NotTaken == [path |-> "none", out |-> Panicked]

TakeInit ==
    /\ source \in BinaryArrays
    /\ indices \in IndexArrays
    /\ taken = NotTaken

\* The take kernel not in use.
TakeIdle ==
    /\ source = [offsets |-> <<0>>, values |-> <<>>, validity |-> None]
    /\ indices = [values |-> <<>>, validity |-> None]
    /\ taken = NotTaken

TakeNoValidity ==
    /\ taken.path = "none"
    /\ ~HasNulls(source.validity) /\ ~HasNulls(indices.validity)
    /\ taken' = [path |-> "take_no_validity",
                 out |-> take_no_validity(source.offsets, source.values, indices.values)]
    /\ UNCHANGED <<source, indices, nonTakeVars>>

TakeValuesValidity ==
    /\ taken.path = "none"
    /\ HasNulls(source.validity) /\ ~HasNulls(indices.validity)
    /\ \E oob \in OobReads :
         taken' = [path |-> "take_values_validity",
                   out |-> take_values_validity(source, indices.values, oob)]
    /\ UNCHANGED <<source, indices, nonTakeVars>>

TakeIndicesValidity ==
    /\ taken.path = "none"
    /\ ~HasNulls(source.validity) /\ HasNulls(indices.validity)
    /\ taken' = [path |-> "take_indices_validity",
                 out |-> take_indices_validity(source.offsets, source.values, indices)]
    /\ UNCHANGED <<source, indices, nonTakeVars>>

TakeValuesIndicesValidity ==
    /\ taken.path = "none"
    /\ HasNulls(source.validity) /\ HasNulls(indices.validity)
    /\ \E oob \in OobReads :
         taken' = [path |-> "take_values_indices_validity",
                   out |-> take_values_indices_validity(source, indices, oob)]
    /\ UNCHANGED <<source, indices, nonTakeVars>>

TakeNext ==
    \/ TakeNoValidity
    \/ TakeValuesValidity
    \/ TakeIndicesValidity
    \/ TakeValuesIndicesValidity

(***************************************************************************)
(* GrowableNull (array/growable/null.rs): a data type and a running        *)
(* length.  requested is the sum of the len and additional arguments       *)
(* passed so far; finished is the array last produced, with the sum at     *)
(* that moment.                                                            *)
(***************************************************************************)
DataTypes == {"Null", "Boolean", "Int32"}
\* source_index and start: there is no source array to bound them
ExtendArgs == {0, 1, 1000}

\* NullArray::from_data(data_type, length)
NullArray_from_data(data_type, length) == [data_type |-> data_type, length |-> length]

GrowableNull_new(data_type) == [data_type |-> data_type, length |-> 0, moved |-> FALSE]

\* extend that counts from start.
GrowableNull_extend_from_start(g, source_index, start, len) ==
    [g EXCEPT !.length = g.length + start + len]

\* extend with the length assigned instead of added.
GrowableNull_extend_assigning(g, source_index, start, len) == [g EXCEPT !.length = len]

GrowableNull_extend(g, source_index, start, len) == [g EXCEPT !.length = g.length + len]

GrowableNull_extend_validity(g, additional) == [g EXCEPT !.length = g.length + additional]

GrowableNull_as_arc(g) == NullArray_from_data(g.data_type, g.length)

GrowableNull_as_box(g) == NullArray_from_data(g.data_type, g.length)

\* From<GrowableNull> for NullArray
NullArray_from(val) == NullArray_from_data(val.data_type, val.length)

Finished(how, arr) == Some([how |-> how, array |-> arr, requested |-> requested])

GrowableInit ==
    /\ growable \in {GrowableNull_new(dt) : dt \in DataTypes}
    /\ requested = 0
    /\ finished = None

GrowableIdle ==
    /\ growable = GrowableNull_new("Null")
    /\ requested = 0
    /\ finished = None

Extend ==
    /\ ~growable.moved
    /\ \E source_index \in ExtendArgs, start \in ExtendArgs, len \in 0..MaxTotal :
         /\ growable.length + len <= MaxTotal
         /\ growable' = GrowableNull_extend(growable, source_index, start, len)
         /\ requested' = requested + len
    /\ UNCHANGED <<finished, nonGrowableVars>>

ExtendValidity ==
    /\ ~growable.moved
    /\ \E additional \in 0..MaxTotal :
         /\ growable.length + additional <= MaxTotal
         /\ growable' = GrowableNull_extend_validity(growable, additional)
         /\ requested' = requested + additional
    /\ UNCHANGED <<finished, nonGrowableVars>>

AsArc ==
    /\ ~growable.moved
    /\ finished' = Finished("as_arc", GrowableNull_as_arc(growable))
    /\ UNCHANGED <<growable, requested, nonGrowableVars>>

AsBox ==
    /\ ~growable.moved
    /\ finished' = Finished("as_box", GrowableNull_as_box(growable))
    /\ UNCHANGED <<growable, requested, nonGrowableVars>>

\* NullArray::from(growable) takes the builder by value.
IntoNullArray ==
    /\ ~growable.moved
    /\ finished' = Finished("from", NullArray_from(growable))
    /\ growable' = [growable EXCEPT !.moved = TRUE]
    /\ UNCHANGED <<requested, nonGrowableVars>>

GrowableNext ==
    \/ Extend
    \/ ExtendValidity
    \/ AsArc
    \/ AsBox
    \/ IntoNullArray

(***************************************************************************)
(* The BooleanArray bridge (array/boolean/ffi.rs).  A Bitmap is a view     *)
(* (offset, length) of shared storage bits; a pointer to a bitmap's        *)
(* storage is modelled by the storage it points to.                        *)
(***************************************************************************)
Bitmap_from_bits(bits) == [bytes |-> bits, offset |-> 0, length |-> Len(bits)]
Bitmap_slice(b, offset, length) ==
    [bytes |-> b.bytes, offset |-> b.offset + offset, length |-> length]
Bitmap_get(b, i) == At(b.bytes, b.offset + i)
\* Bitmap::as_ptr: the start of the storage, whatever the bitmap's offset.
Bitmap_as_ptr(b) == b.bytes

MapOption(o, F(_)) == IF IsSome(o) THEN Some(F(Unwrap(o))) ELSE None

BooleanArray_from_data(data_type, values, validity) ==
    [data_type |-> data_type, values |-> values, validity |-> validity, offset |-> 0]

BooleanArray_slice(a, offset, length) ==
    LET sl(b) == Bitmap_slice(b, offset, length)
    IN [data_type |-> a.data_type,
        values |-> sl(a.values),
        validity |-> MapOption(a.validity, sl),
        offset |-> a.offset + offset]

BooleanArray_len(a) == a.values.length
BooleanArray_value(a, i) == Bitmap_get(a.values, i)
BooleanArray_is_valid(a, i) == ~IsSome(a.validity) \/ Bitmap_get(Unwrap(a.validity), i)

\* ToFfi::buffers: the validity's pointer (or null), then the values' pointer.
BooleanArray_buffers(a) ==
    <<MapOption(a.validity, Bitmap_as_ptr), Some(Bitmap_as_ptr(a.values))>>

\* ToFfi::offset
BooleanArray_offset(a) == a.offset

\* The descriptor the export hands over: the declared type, length, offset
\* and buffer pointers.
Export(a, data_type) ==
    [data_type |-> data_type, length |-> BooleanArray_len(a),
     offset |-> BooleanArray_offset(a), buffers |-> BooleanArray_buffers(a)]

\* ffi: a bitmap over the first offset + length bits behind buffer slot k
\* (from 1); a null pointer is None for the validity and an error otherwise.
ffi_create_bitmap(d, k) ==
    [bytes |-> Unwrap(d.buffers[k]), offset |-> 0, length |-> d.offset + d.length]

ImportErr == [tag |-> "Err", array |-> None]
ImportPanic == [tag |-> "Panic", array |-> None]
ImportOk(a) == [tag |-> "Ok", array |-> Some(a)]

\* try_from_ffi with the buffers left as reconstructed, whatever the offset.
BooleanArray_try_from_ffi_no_slice(d) ==
    IF d.data_type # "Boolean" THEN ImportPanic
    ELSE IF ~IsSome(d.buffers[2]) THEN ImportErr
    ELSE LET validity == IF IsSome(d.buffers[1]) THEN Some(ffi_create_bitmap(d, 1)) ELSE None
             values == ffi_create_bitmap(d, 2)
         IN ImportOk(BooleanArray_from_data(d.data_type, values, validity))

BooleanArray_try_from_ffi(d) ==
    LET data_type == d.data_type
    IN IF data_type # "Boolean" THEN ImportPanic      \* assert_eq!
       ELSE LET length == d.length
                offset == d.offset
                validity == IF IsSome(d.buffers[1]) THEN Some(ffi_create_bitmap(d, 1)) ELSE None
                sl(b) == Bitmap_slice(b, offset, length)
            IN IF ~IsSome(d.buffers[2]) THEN ImportErr    \* array.bitmap(0)?
               ELSE LET values == ffi_create_bitmap(d, 2)
                    IN IF offset > 0
                       THEN ImportOk(BooleanArray_from_data(data_type, sl(values),
                                                          MapOption(validity, sl)))
                       ELSE ImportOk(BooleanArray_from_data(data_type, values, validity))

\* Arrays as constructed: from_data over whole bitmaps of up to MaxBits bits.
BitSeqs == SeqsUpTo(BOOLEAN, MaxBits)
FreshBooleanArrays ==
    UNION {{BooleanArray_from_data("Boolean", Bitmap_from_bits(bits), v)
            : v \in {None} \cup {Some(Bitmap_from_bits(vb)) : vb \in SeqsOfLen(BOOLEAN, Len(bits))}}
           : bits \in BitSeqs}

NotImported == [tag |-> "none", array |-> None]

FfiInit ==
    /\ array \in FreshBooleanArrays
    /\ descriptor = None
    /\ imported = NotImported

FfiIdle ==
    /\ array = BooleanArray_from_data("Boolean", Bitmap_from_bits(<<>>), None)
    /\ descriptor = None
    /\ imported = NotImported

\* array.slice(offset, length), before the array is exported
SliceArray ==
    /\ descriptor = None
    /\ \E offset \in 0..BooleanArray_len(array) :
         \E length \in 0..(BooleanArray_len(array) - offset) :
           /\ <<offset, length>> # <<0, BooleanArray_len(array)>>
           /\ array' = BooleanArray_slice(array, offset, length)
    /\ UNCHANGED <<descriptor, imported, nonFfiVars>>

\* The array is exported: its descriptor declares Boolean.
ExportArray ==
    /\ descriptor = None
    /\ descriptor' = Some(Export(array, "Boolean"))
    /\ UNCHANGED <<array, imported, nonFfiVars>>

\* A foreign runtime presents the same buffers under another declared type,
\* or with a null values pointer.
PresentForeign ==
    /\ descriptor = None
    /\ \/ \E dt \in DataTypes \ {"Boolean"} : descriptor' = Some(Export(array, dt))
       \/ descriptor' = Some([Export(array, "Boolean") EXCEPT !.buffers[2] = None])
    /\ UNCHANGED <<array, imported, nonFfiVars>>

\* BooleanArray::try_from_ffi(descriptor)
ImportArray ==
    /\ IsSome(descriptor)
    /\ imported.tag = "none"
    /\ imported' = BooleanArray_try_from_ffi(Unwrap(descriptor))
    /\ UNCHANGED <<array, descriptor, nonFfiVars>>

FfiNext ==
    \/ SliceArray
    \/ ExportArray
    \/ PresentForeign
    \/ ImportArray

(***************************************************************************)
(* The remainder kernels (compute/arithmetics/basic/rem.rs) over           *)
(* PrimitiveArray<T>, for T = i32 (logical types Int32 and Date32) and     *)
(* T = u8 (UInt8, one of the strength-reduced types).                      *)
(***************************************************************************)
Natives == {"i32", "u8"}
Signed(native) == native = "i32"
MinOf(native) == IF native = "i32" THEN -2147483647 - 1 ELSE 0
MaxOf(native) == IF native = "i32" THEN 2147483647 ELSE 255
LogicalTypes(native) == IF native = "i32" THEN {"Int32", "Date32"} ELSE {"UInt8"}
\* T::DATA_TYPE
NativeDataType(native) == IF native = "i32" THEN "Int32" ELSE "UInt8"

\* a % b of Rust where it is defined: the remainder of the division
\* truncated toward zero, with the sign of a.
TruncRem(native, a, b) ==
    IF Signed(native) /\ b = MinOf(native) THEN (IF a = b THEN 0 ELSE a)
    ELSE LET bb == IF b < 0 THEN -b ELSE b
             m == a % bb
         IN IF a >= 0 \/ m = 0 THEN m ELSE m - bb

\* The pairs on which % panics: a zero divisor, and MIN % -1 of a signed type.
RemFaults(native, a, b) == b = 0 \/ (Signed(native) /\ a = MinOf(native) /\ b = -1)

\* a remainder that takes the sign of the divisor's magnitude (floored).
rem_op_floored(native, a, b) ==
    IF Signed(native) /\ b = MinOf(native) THEN (IF a = b THEN 0 ELSE a)
    ELSE a % (IF b < 0 THEN -b ELSE b)

\* |a, b| a % b
rem_op(native, a, b) == TruncRem(native, a, b)

\* checked_rem that is None for a zero divisor only.
checked_rem_op_zero_only(native, a, b) ==
    IF b = 0 THEN None
    ELSE IF RemFaults(native, a, b) THEN Some(0) ELSE Some(TruncRem(native, a, b))

\* |a, b| a.checked_rem(&b)
checked_rem_op(native, a, b) ==
    IF RemFaults(native, a, b) THEN None ELSE Some(TruncRem(native, a, b))

PrimitiveArray_from_data(native, data_type, values, validity) ==
    [native |-> native, data_type |-> data_type, values |-> values, validity |-> validity]

RemErr(msg) == [tag |-> "Err", err |-> msg, array |-> None, applied |-> 0]
RemPanic(k) == [tag |-> "Panic", err |-> "", array |-> None, applied |-> k]
RemOk(a) == [tag |-> "Ok", err |-> "", array |-> Some(a), applied |-> Len(a.values)]

check_same_len(l, r) == Len(l.values) = Len(r.values)

BitAnd(a, b) == [i \in 1..Len(a) |-> a[i] /\ b[i]]
BitOr(a, b) == [i \in 1..Len(a) |-> a[i] \/ b[i]]
\* the bitmaps or-ed instead of and-ed.
combine_validities_or(l, r) ==
    IF IsSome(l) /\ IsSome(r) THEN Some(BitOr(Unwrap(l), Unwrap(r)))
    ELSE IF IsSome(l) THEN l ELSE r

combine_validities(l, r) ==
    IF IsSome(l) /\ IsSome(r) THEN Some(BitAnd(Unwrap(l), Unwrap(r)))
    ELSE IF IsSome(l) THEN l ELSE r

\* The first position (from 1) whose pair faults, 0 when none does.
FirstFault(native, as, bs) ==
    LET bad == {i \in 1..Len(as) : RemFaults(native, as[i], bs[i])}
    IN IF bad = {} THEN 0 ELSE CHOOSE i \in bad : \A j \in bad : i <= j

\* arity::binary with op = |a, b| a % b: the lengths are checked, then op is
\* applied to every pair of payloads, valid or not.
binary_rem(l, r, data_type) ==
    IF ~check_same_len(l, r) THEN RemErr("Arrays must have the same length")
    ELSE LET validity == combine_validities(l.validity, r.validity)
             fault == FirstFault(l.native, l.values, r.values)
         IN IF fault > 0 THEN RemPanic(fault)
            ELSE RemOk(PrimitiveArray_from_data(l.native, data_type,
                    [i \in 1..Len(l.values) |-> rem_op(l.native, l.values[i], r.values[i])],
                    validity))

\* arity::binary_checked with op = checked_rem: the lengths are checked, op is
\* applied to every pair, a None gives the default value and an unset bit,
\* and the bits are and-ed with the operands' validities.
binary_checked_rem(l, r, data_type) ==
    IF ~check_same_len(l, r) THEN RemErr("Arrays must have the same length")
    ELSE LET res == [i \in 1..Len(l.values) |-> checked_rem_op(l.native, l.values[i], r.values[i])]
             values == [i \in 1..Len(res) |-> IF IsSome(res[i]) THEN Unwrap(res[i]) ELSE 0]
             bitmap == [i \in 1..Len(res) |-> IsSome(res[i])]
             validity == combine_validities(l.validity, r.validity)
         IN RemOk(PrimitiveArray_from_data(l.native, data_type, values,
                    IF IsSome(validity) THEN Some(BitAnd(bitmap, Unwrap(validity)))
                    ELSE Some(bitmap)))

checked_rem(l, r) ==
    IF l.data_type # r.data_type
    THEN RemErr("Arrays must have the same logical type")
    ELSE binary_checked_rem(l, r, l.data_type)

\* rem without the test of the logical types.
rem_no_type_check(l, r) == binary_rem(l, r, l.data_type)

\* rem going through the checked operator.
rem_through_checked(l, r) == checked_rem(l, r)

rem(l, r) ==
    IF l.data_type # r.data_type
    THEN RemErr("Arrays must have the same logical type")
    ELSE binary_rem(l, r, l.data_type)

\* StrengthReducedU8: new(divisor) asserts divisor > 0; a power of two has
\* multiplier 0 and otherwise multiplier = u16::MAX / divisor + 1.
IsPowerOfTwo(n) == n \in {1, 2, 4, 8, 16, 32, 64, 128}
StrengthReduced_new(divisor) ==
    [divisor |-> divisor,
     multiplier |-> IF IsPowerOfTwo(divisor) THEN 0 ELSE (65535 \div divisor) + 1]
\* a % reduced_rem
StrengthReduced_rem(a, reduced) ==
    IF reduced.multiplier = 0 THEN a % reduced.divisor     \* a & (divisor - 1)
    ELSE LET product == (reduced.multiplier * a) % 65536   \* wrapping_mul in u16
         IN ((product * reduced.divisor) \div 65536) % 256

\* arity::unary: op on every payload, the validity kept.
unary_reduced_rem(l, reduced, data_type) ==
    RemOk(PrimitiveArray_from_data(l.native, data_type,
            [i \in 1..Len(l.values) |-> StrengthReduced_rem(l.values[i], reduced)],
            l.validity))

unary_rem(l, r, data_type) ==
    LET fault == FirstFault(l.native, l.values, [i \in 1..Len(l.values) |-> r])
    IN IF fault > 0 THEN RemPanic(fault)
       ELSE RemOk(PrimitiveArray_from_data(l.native, data_type,
                    [i \in 1..Len(l.values) |-> rem_op(l.native, l.values[i], r)],
                    l.validity))

\* arity::unary_checked with op = checked_rem by the scalar.
unary_checked_rem(l, r, data_type) ==
    LET res == [i \in 1..Len(l.values) |-> checked_rem_op(l.native, l.values[i], r)]
        values == [i \in 1..Len(res) |-> IF IsSome(res[i]) THEN Unwrap(res[i]) ELSE 0]
        bitmap == [i \in 1..Len(res) |-> IsSome(res[i])]
    IN RemOk(PrimitiveArray_from_data(l.native, data_type, values,
               IF IsSome(l.validity) THEN Some(BitAnd(Unwrap(l.validity), bitmap))
               ELSE Some(bitmap)))

rem_scalar(l, r) ==
    IF NativeDataType(l.native) = "UInt8"
    THEN IF r = 0 THEN RemPanic(0)       \* StrengthReducedU8::new: assert!(divisor > 0)
         ELSE unary_reduced_rem(l, StrengthReduced_new(r), l.data_type)
    ELSE unary_rem(l, r, l.data_type)

checked_rem_scalar(l, r) == unary_checked_rem(l, r, l.data_type)

\* The operands of the model: dividends and divisors that reach a zero
\* divisor, MIN % -1, and remainders of either sign.
LhsPayloads(native) == IF native = "i32" THEN {MinOf(native), -7} ELSE {7, MaxOf(native)}
RhsPayloads(native) == IF native = "i32" THEN {-1, 0, 3} ELSE {0, 1, 3}
Scalars(native) ==
    IF native = "i32" THEN {-1, 0, 3, MinOf(native)} ELSE {0, 1, 3, MaxOf(native)}

PrimitiveArrays(native, types, payloads) ==
    UNION {{PrimitiveArray_from_data(native, dt, vs, v)
            : dt \in types, v \in Validities(Len(vs))}
           : vs \in SeqsUpTo(payloads, MaxArrayLen)}

ArrayRhs(a) == [array |-> Some(a), scalar |-> None]
ScalarRhs(x) == [array |-> None, scalar |-> Some(x)]

NoResult == [op |-> "none", out |-> RemErr("")]

RemInit ==
    /\ \E native \in Natives :
         /\ lhs \in PrimitiveArrays(native, {NativeDataType(native)}, LhsPayloads(native))
         /\ rhs \in {ArrayRhs(a) : a \in PrimitiveArrays(native, LogicalTypes(native),
                                                         RhsPayloads(native))}
                    \cup {ScalarRhs(x) : x \in Scalars(native)}
    /\ result = NoResult

RemIdle ==
    /\ lhs = PrimitiveArray_from_data("i32", "Int32", <<>>, None)
    /\ rhs = ScalarRhs(1)
    /\ result = NoResult

Rem ==
    /\ result.op = "none"
    /\ IsSome(rhs.array)
    /\ result' = [op |-> "rem", out |-> rem(lhs, Unwrap(rhs.array))]
    /\ UNCHANGED <<lhs, rhs, nonRemVars>>

CheckedRem ==
    /\ result.op = "none"
    /\ IsSome(rhs.array)
    /\ result' = [op |-> "checked_rem", out |-> checked_rem(lhs, Unwrap(rhs.array))]
    /\ UNCHANGED <<lhs, rhs, nonRemVars>>

RemScalar ==
    /\ result.op = "none"
    /\ IsSome(rhs.scalar)
    /\ result' = [op |-> "rem_scalar", out |-> rem_scalar(lhs, Unwrap(rhs.scalar))]
    /\ UNCHANGED <<lhs, rhs, nonRemVars>>

CheckedRemScalar ==
    /\ result.op = "none"
    /\ IsSome(rhs.scalar)
    /\ result' = [op |-> "checked_rem_scalar",
                  out |-> checked_rem_scalar(lhs, Unwrap(rhs.scalar))]
    /\ UNCHANGED <<lhs, rhs, nonRemVars>>

RemNext ==
    \/ Rem
    \/ CheckedRem
    \/ RemScalar
    \/ CheckedRemScalar

(***************************************************************************)
(* The primitive casts (compute/cast/primitive_to.rs): the numeric casts   *)
(* for I in {i32, u8, f32} and O in {i8, u8, i32}, and the rescalings of   *)
(* dates, times and timestamps over i32 and i64.  An f32 is a count of     *)
(* halves, or NaN.  The i64 values of the model are those a 32-bit integer *)
(* holds.                                                                  *)
(***************************************************************************)
CastSources == {"i32", "u8", "f32"}
CastTargets == {"i8", "u8", "i32"}
IsFloat(native) == native = "f32"
IntMin(native) ==
    IF native = "i8" THEN -128 ELSE IF native = "u8" THEN 0 ELSE -2147483647 - 1
IntMax(native) ==
    IF native = "i8" THEN 127 ELSE IF native = "u8" THEN 255 ELSE 2147483647

F32(halves) == [nan |-> FALSE, halves |-> halves]
F32NaN == [nan |-> TRUE, halves |-> 0]

\* a quotient rounded down.
div_op_floor(x, d) == x \div d

\* x / d of Rust for d > 0: the quotient truncated toward zero.
div_op(x, d) == IF x >= 0 THEN x \div d ELSE -((-x) \div d)

\* A float without its fraction.
F32Trunc(x) == div_op(x.halves, 2)

DataType(kind, unit, tz) == [kind |-> kind, unit |-> unit, tz |-> tz]
PlainType(kind) == DataType(kind, "none", None)
NativeType(native) ==
    PlainType(IF native = "i8" THEN "Int8" ELSE IF native = "u8" THEN "UInt8"
              ELSE IF native = "i32" THEN "Int32" ELSE IF native = "i64" THEN "Int64"
              ELSE "Float32")

\* a cast that does not look at O's range.
num_traits_cast_unbounded(i, o, x) ==
    IF IsFloat(i) THEN (IF x.nan THEN None ELSE Some(F32Trunc(x))) ELSE Some(x)

\* num_traits::cast::cast::<I, O>(x) for an integer O: an integer in O's
\* range is itself; a float that is not NaN and lies strictly between
\* O::MIN - 1 and O::MAX + 1 is its truncation; anything else is None.
num_traits_cast(i, o, x) ==
    IF IsFloat(i)
    THEN IF ~x.nan /\ IntMin(o) <= F32Trunc(x) /\ F32Trunc(x) <= IntMax(o)
         THEN Some(F32Trunc(x)) ELSE None
    ELSE IF IntMin(o) <= x /\ x <= IntMax(o) THEN Some(x) ELSE None

\* x as O for an integer O.  From an integer: the low bits reinterpreted in
\* O (i32 holds every i32 and u8 unchanged).  From a float: NaN is 0, any
\* other value is truncated and saturated to O's range.
AsPrimitive_as(i, o, x) ==
    IF IsFloat(i)
    THEN IF x.nan THEN 0
         ELSE IF F32Trunc(x) < IntMin(o) THEN IntMin(o)
         ELSE IF F32Trunc(x) > IntMax(o) THEN IntMax(o)
         ELSE F32Trunc(x)
    ELSE IF o = "i32" THEN x
    ELSE LET low == x % 256
         IN IF o = "i8" /\ low >= 128 THEN low - 256 ELSE low

\* PrimitiveArray::from_trusted_len_iter over Option<O>: a None is a null
\* holding the default value.
PrimitiveArray_from_trusted_len_iter(native, items) ==
    PrimitiveArray_from_data(native, NativeType(native),
        [k \in 1..Len(items) |-> IF IsSome(items[k]) THEN Unwrap(items[k]) ELSE 0],
        Some([k \in 1..Len(items) |-> IsSome(items[k])]))

\* array.to(data_type)
PrimitiveArray_to(a, data_type) == [a EXCEPT !.data_type = data_type]

\* from.iter(): None for a null, Some(value) otherwise
PrimitiveArray_iter(a) ==
    [k \in 1..Len(a.values) |-> IF IsValid(a.validity, k - 1) THEN Some(a.values[k]) ELSE None]

\* arity::unary(from, op, data_type), given op's value for every payload.
unary(a, mapped, native, data_type) ==
    PrimitiveArray_from_data(native, data_type, mapped, a.validity)

primitive_to_primitive(a, o, to_type) ==
    LET items == PrimitiveArray_iter(a)
        iter == [k \in 1..Len(items) |->
                    IF IsSome(items[k]) THEN num_traits_cast(a.native, o, Unwrap(items[k]))
                    ELSE None]
    IN PrimitiveArray_to(PrimitiveArray_from_trusted_len_iter(o, iter), to_type)

primitive_as_primitive(a, o, to_type) ==
    unary(a, [k \in 1..Len(a.values) |-> AsPrimitive_as(a.native, o, a.values[k])],
          o, to_type)

\* the two forms exchanged.
primitive_to_primitive_dyn_exchanged(a, o, to_type, options) ==
    IF options.wrapped THEN primitive_to_primitive(a, o, to_type)
    ELSE primitive_as_primitive(a, o, to_type)

primitive_to_primitive_dyn(a, o, to_type, options) ==
    IF options.wrapped THEN primitive_as_primitive(a, o, to_type)
    ELSE primitive_to_primitive(a, o, to_type)

primitive_to_same_primitive(a, to_type) ==
    PrimitiveArray_from_data(a.native, to_type, a.values, a.validity)

\* temporal_conversions: the number of each unit in a second, and of
\* seconds and milliseconds in a day.
MILLISECONDS == 1000
MICROSECONDS == 1000000
NANOSECONDS == 1000000000
SECONDS_IN_DAY == 86400
MILLISECONDS_IN_DAY == 86400000

TimeUnits == {"Second", "Millisecond", "Microsecond", "Nanosecond"}
\* the units of a Time32 and of a Time64
Time32Units == {"Second", "Millisecond"}
Time64Units == {"Microsecond", "Nanosecond"}
\* the units of timestamp_to_date32 whose day the model's integers hold
Date32Units == {"Second", "Millisecond"}

\* time_unit_multiple with the milli- and microsecond arms exchanged.
time_unit_multiple_exchanged(unit) ==
    IF unit = "Second" THEN 1
    ELSE IF unit = "Millisecond" THEN MICROSECONDS
    ELSE IF unit = "Microsecond" THEN MILLISECONDS
    ELSE NANOSECONDS

time_unit_multiple(unit) ==
    IF unit = "Second" THEN 1
    ELSE IF unit = "Millisecond" THEN MILLISECONDS
    ELSE IF unit = "Microsecond" THEN MICROSECONDS
    ELSE NANOSECONDS

mul_op(x, m) == x * m

Scaled(a, m) == [k \in 1..Len(a.values) |-> mul_op(a.values[k], m)]
Divided(a, d) == [k \in 1..Len(a.values) |-> div_op(a.values[k], d)]

date32_to_date64(a) == unary(a, Scaled(a, MILLISECONDS_IN_DAY), "i64", PlainType("Date64"))
date64_to_date32(a) == unary(a, Divided(a, MILLISECONDS_IN_DAY), "i32", PlainType("Date32"))
time32s_to_time32ms(a) ==
    unary(a, Scaled(a, 1000), "i32", DataType("Time32", "Millisecond", None))
time32ms_to_time32s(a) ==
    unary(a, Divided(a, 1000), "i32", DataType("Time32", "Second", None))
time64us_to_time64ns(a) ==
    unary(a, Scaled(a, 1000), "i64", DataType("Time64", "Nanosecond", None))
time64ns_to_time64us(a) ==
    unary(a, Divided(a, 1000), "i64", DataType("Time64", "Microsecond", None))

timestamp_to_date64(a, from_unit) ==
    LET from_size == time_unit_multiple(from_unit)
        to_size == MILLISECONDS
        to_type == PlainType("Date64")
    IN IF to_size < from_size THEN unary(a, Divided(a, from_size \div to_size), "i64", to_type)
       ELSE IF to_size = from_size THEN primitive_to_same_primitive(a, to_type)
       ELSE unary(a, Scaled(a, to_size \div from_size), "i64", to_type)

timestamp_to_date32(a, from_unit) ==
    LET from_size == time_unit_multiple(from_unit) * SECONDS_IN_DAY
    IN unary(a, Divided(a, from_size), "i32", PlainType("Date32"))

time32_to_time64(a, from_unit, to_unit) ==
    LET from_size == time_unit_multiple(from_unit)
        to_size == time_unit_multiple(to_unit)
        divisor == to_size \div from_size
    IN unary(a, Scaled(a, divisor), "i64", DataType("Time64", to_unit, None))

time64_to_time32(a, from_unit, to_unit) ==
    LET from_size == time_unit_multiple(from_unit)
        to_size == time_unit_multiple(to_unit)
        divisor == from_size \div to_size
    IN unary(a, Divided(a, divisor), "i32", DataType("Time32", to_unit, None))

timestamp_to_timestamp(a, from_unit, to_unit, tz) ==
    LET from_size == time_unit_multiple(from_unit)
        to_size == time_unit_multiple(to_unit)
        to_type == DataType("Timestamp", to_unit, tz)
    IN IF from_size >= to_size
       THEN unary(a, Divided(a, from_size \div to_size), "i64", to_type)
       ELSE unary(a, Scaled(a, to_size \div from_size), "i64", to_type)

\* The arrays of the model: values that leave the narrow targets on either
\* side, negative values that are no multiple of a ratio, floats with a
\* fraction, beyond u8 and NaN.
CastNatives == {"i32", "i64", "u8", "f32"}
CastPayloads(native) ==
    IF native = "i32" THEN {-1500, -1, 2, 300}
    ELSE IF native = "i64" THEN {-1500, -1, 2, 1500}
    ELSE IF native = "u8" THEN {127, 200}
    ELSE {F32(3), F32(-1), F32(600), F32NaN}

CastArrays(native) ==
    UNION {{PrimitiveArray_from_data(native, NativeType(native), vs, v)
            : v \in Validities(Len(vs))}
           : vs \in SeqsUpTo(CastPayloads(native), MaxArrayLen)}

\* every product x * m is one of the model's integers
InModelRange(a, m) ==
    \A k \in 1..Len(a.values) :
        (IF a.values[k] < 0 THEN -a.values[k] ELSE a.values[k]) <= 2147483647 \div m

CastOptions(wrapped) == [wrapped |-> wrapped]
Timezones == {None, Some("UTC")}

CastResult(op, from_unit, to_unit, o, wrapped, a) ==
    [op |-> op, from_unit |-> from_unit, to_unit |-> to_unit, to |-> o,
     wrapped |-> wrapped, out |-> Some(a)]
NoCast ==
    [op |-> "none", from_unit |-> "none", to_unit |-> "none", to |-> "none",
     wrapped |-> FALSE, out |-> None]

CastInit ==
    /\ \E native \in CastNatives : from \in CastArrays(native)
    /\ cast = NoCast

CastIdle ==
    /\ from = PrimitiveArray_from_data("i32", NativeType("i32"), <<>>, None)
    /\ cast = NoCast

PrimitiveToPrimitiveDyn ==
    /\ cast.op = "none"
    /\ from.native \in CastSources
    /\ \E o \in CastTargets, wrapped \in BOOLEAN :
         cast' = CastResult("primitive_to_primitive_dyn", "none", "none", o, wrapped,
                    primitive_to_primitive_dyn(from, o, NativeType(o), CastOptions(wrapped)))
    /\ UNCHANGED <<from, nonCastVars>>

Date32ToDate64 ==
    /\ cast.op = "none"
    /\ from.native = "i32"
    /\ InModelRange(from, MILLISECONDS_IN_DAY)
    /\ cast' = CastResult("date32_to_date64", "none", "none", "i64", FALSE,
                          date32_to_date64(from))
    /\ UNCHANGED <<from, nonCastVars>>

Date64ToDate32 ==
    /\ cast.op = "none"
    /\ from.native = "i64"
    /\ cast' = CastResult("date64_to_date32", "none", "none", "i32", FALSE,
                          date64_to_date32(from))
    /\ UNCHANGED <<from, nonCastVars>>

Time32sToTime32ms ==
    /\ cast.op = "none"
    /\ from.native = "i32"
    /\ cast' = CastResult("time32s_to_time32ms", "Second", "Millisecond", "i32", FALSE,
                          time32s_to_time32ms(from))
    /\ UNCHANGED <<from, nonCastVars>>

Time32msToTime32s ==
    /\ cast.op = "none"
    /\ from.native = "i32"
    /\ cast' = CastResult("time32ms_to_time32s", "Millisecond", "Second", "i32", FALSE,
                          time32ms_to_time32s(from))
    /\ UNCHANGED <<from, nonCastVars>>

Time64usToTime64ns ==
    /\ cast.op = "none"
    /\ from.native = "i64"
    /\ cast' = CastResult("time64us_to_time64ns", "Microsecond", "Nanosecond", "i64", FALSE,
                          time64us_to_time64ns(from))
    /\ UNCHANGED <<from, nonCastVars>>

Time64nsToTime64us ==
    /\ cast.op = "none"
    /\ from.native = "i64"
    /\ cast' = CastResult("time64ns_to_time64us", "Nanosecond", "Microsecond", "i64", FALSE,
                          time64ns_to_time64us(from))
    /\ UNCHANGED <<from, nonCastVars>>

TimestampToDate64 ==
    /\ cast.op = "none"
    /\ from.native = "i64"
    /\ \E from_unit \in TimeUnits :
         /\ from_unit = "Second" => InModelRange(from, MILLISECONDS)
         /\ cast' = CastResult("timestamp_to_date64", from_unit, "Millisecond", "i64", FALSE,
                               timestamp_to_date64(from, from_unit))
    /\ UNCHANGED <<from, nonCastVars>>

TimestampToDate32 ==
    /\ cast.op = "none"
    /\ from.native = "i64"
    /\ \E from_unit \in Date32Units :
         cast' = CastResult("timestamp_to_date32", from_unit, "none", "i32", FALSE,
                            timestamp_to_date32(from, from_unit))
    /\ UNCHANGED <<from, nonCastVars>>

Time32ToTime64 ==
    /\ cast.op = "none"
    /\ from.native = "i32"
    /\ \E from_unit \in Time32Units, to_unit \in Time64Units :
         /\ InModelRange(from, time_unit_multiple(to_unit) \div time_unit_multiple(from_unit))
         /\ cast' = CastResult("time32_to_time64", from_unit, to_unit, "i64", FALSE,
                               time32_to_time64(from, from_unit, to_unit))
    /\ UNCHANGED <<from, nonCastVars>>

Time64ToTime32 ==
    /\ cast.op = "none"
    /\ from.native = "i64"
    /\ \E from_unit \in Time64Units, to_unit \in Time32Units :
         cast' = CastResult("time64_to_time32", from_unit, to_unit, "i32", FALSE,
                            time64_to_time32(from, from_unit, to_unit))
    /\ UNCHANGED <<from, nonCastVars>>

TimestampToTimestamp ==
    /\ cast.op = "none"
    /\ from.native = "i64"
    /\ \E from_unit \in TimeUnits, to_unit \in TimeUnits, tz \in Timezones :
         /\ time_unit_multiple(from_unit) < time_unit_multiple(to_unit) =>
                InModelRange(from, time_unit_multiple(to_unit)
                                       \div time_unit_multiple(from_unit))
         /\ cast' = CastResult("timestamp_to_timestamp", from_unit, to_unit, "i64", FALSE,
                               timestamp_to_timestamp(from, from_unit, to_unit, tz))
    /\ UNCHANGED <<from, nonCastVars>>

CastNext ==
    \/ PrimitiveToPrimitiveDyn
    \/ Date32ToDate64
    \/ Date64ToDate32
    \/ Time32sToTime32ms
    \/ Time32msToTime32s
    \/ Time64usToTime64ns
    \/ Time64nsToTime64us
    \/ TimestampToDate64
    \/ TimestampToDate32
    \/ Time32ToTime64
    \/ Time64ToTime32
    \/ TimestampToTimestamp

(***************************************************************************)
(* The scalars (scalar/boolean.rs, scalar/struct_.rs): BooleanScalar and   *)
(* StructScalar, built by new() and compared with ==.  The values of a     *)
(* StructScalar are BooleanScalars.                                        *)
(***************************************************************************)
BooleanScalar_new(v) ==
    [value |-> IF IsSome(v) THEN Unwrap(v) ELSE FALSE, is_valid |-> IsSome(v)]

\* an equality that compares the values only.
BooleanScalar_eq_values_only(self, other) == self.value = other.value

\* impl PartialEq for BooleanScalar
BooleanScalar_eq(self, other) ==
    self.is_valid = other.is_valid /\ ((~self.is_valid) \/ (self.value = other.value))

StructScalar_new(data_type, values) ==
    [values |-> IF IsSome(values) THEN Unwrap(values) ELSE <<>>,
     is_valid |-> IsSome(values),
     data_type |-> data_type]

\* PartialEq for dyn Scalar, between two BooleanScalars
dyn_Scalar_eq(self, other) == BooleanScalar_eq(self, other)

\* PartialEq for Vec<Arc<dyn Scalar>>
Vec_eq(xs, ys) ==
    Len(xs) = Len(ys) /\ \A k \in 1..Len(xs) : dyn_Scalar_eq(xs[k], ys[k])

\* impl PartialEq for StructScalar
StructScalar_eq(self, other) ==
    /\ self.data_type = other.data_type
    /\ self.is_valid = other.is_valid
    /\ ((~self.is_valid) \/ Vec_eq(self.values, other.values))

IsStruct(x) == "data_type" \in DOMAIN x

OptionBools == {None, Some(FALSE), Some(TRUE)}
StructTypes == {"Struct<a>", "Struct<a, b>"}
StructValues ==
    {None, Some(<<>>)}
    \cup {Some(<<BooleanScalar_new(v)>>) : v \in OptionBools}
    \cup {Some(<<BooleanScalar_new(Some(TRUE)), BooleanScalar_new(None)>>)}

NoComparison == [left |-> 0, right |-> 0, eq |-> FALSE]

ScalarInit ==
    /\ scalars = <<>>
    /\ comparison = NoComparison

ScalarIdle ==
    /\ scalars = <<>>
    /\ comparison = NoComparison

NewBooleanScalar ==
    /\ Len(scalars) < MaxScalars
    /\ \A k \in 1..Len(scalars) : ~IsStruct(scalars[k])
    /\ \E v \in OptionBools : scalars' = Append(scalars, BooleanScalar_new(v))
    /\ UNCHANGED <<comparison, nonScalarVars>>

NewStructScalar ==
    /\ Len(scalars) < MaxScalars
    /\ \A k \in 1..Len(scalars) : IsStruct(scalars[k])
    /\ \E data_type \in StructTypes, values \in StructValues :
         scalars' = Append(scalars, StructScalar_new(data_type, values))
    /\ UNCHANGED <<comparison, nonScalarVars>>

CompareBooleanScalars ==
    /\ \E i \in 1..Len(scalars), j \in 1..Len(scalars) :
         /\ ~IsStruct(scalars[i])
         /\ comparison' = [left |-> i, right |-> j,
                           eq |-> BooleanScalar_eq(scalars[i], scalars[j])]
    /\ UNCHANGED <<scalars, nonScalarVars>>

CompareStructScalars ==
    /\ \E i \in 1..Len(scalars), j \in 1..Len(scalars) :
         /\ IsStruct(scalars[i])
         /\ comparison' = [left |-> i, right |-> j,
                           eq |-> StructScalar_eq(scalars[i], scalars[j])]
    /\ UNCHANGED <<scalars, nonScalarVars>>

ScalarNext ==
    \/ NewBooleanScalar
    \/ NewStructScalar
    \/ CompareBooleanScalars
    \/ CompareStructScalars

(***************************************************************************)
(* Specifications: one per component, the others not in use.               *)
(***************************************************************************)
InitTake == TakeInit /\ GrowableIdle /\ FfiIdle /\ RemIdle /\ CastIdle /\ ScalarIdle
SpecTake == InitTake /\ [][TakeNext]_vars

InitGrowable == GrowableInit /\ TakeIdle /\ FfiIdle /\ RemIdle /\ CastIdle /\ ScalarIdle
SpecGrowable == InitGrowable /\ [][GrowableNext]_vars

InitFfi == FfiInit /\ TakeIdle /\ GrowableIdle /\ RemIdle /\ CastIdle /\ ScalarIdle
SpecFfi == InitFfi /\ [][FfiNext]_vars

InitRem == RemInit /\ TakeIdle /\ GrowableIdle /\ FfiIdle /\ CastIdle /\ ScalarIdle
SpecRem == InitRem /\ [][RemNext]_vars

InitCast == CastInit /\ TakeIdle /\ GrowableIdle /\ FfiIdle /\ RemIdle /\ ScalarIdle
SpecCast == InitCast /\ [][CastNext]_vars

InitScalar == ScalarInit /\ TakeIdle /\ GrowableIdle /\ FfiIdle /\ RemIdle /\ CastIdle
SpecScalar == InitScalar /\ [][ScalarNext]_vars


(***************************************************************************)
(* Properties of the take kernel.                                          *)
(***************************************************************************)
out == taken.out
NumIndices == Len(indices.values)
Positions == 0..(NumIndices - 1)
Payload(i) == At(indices.values, i)
IndexValid(i) == IsValid(indices.validity, i)
OutValid(i) == IsValid(out.validity, i)
OutWidth(i) == At(out.offsets, i + 1) - At(out.offsets, i)
OutBytes(i) == Slice(out.values, At(out.offsets, i), At(out.offsets, i + 1))
\* index + 1 is beyond the end of the source offsets
PastOffsets(i) == ~InRange(source.offsets, Payload(i) + 1)
\* every valid index addresses an element of the source
ValidIndicesInBounds == \A i \in Positions : IndexValid(i) => ~PastOffsets(i)

\* C1: whichever of the four paths ran, on indices whose valid entries address
\* the source, it returns len(indices) elements; element i is invalid when
\* indices[i] is null or the source element at indices[i] is invalid, and is
\* otherwise valid with the bytes of that source element.
C1_TakeElementwise ==
    (taken.path # "none" /\ ValidIndicesInBounds) =>
        /\ ~out.panic
        /\ Len(out.offsets) = NumIndices + 1
        /\ IsSome(out.validity) => Len(Unwrap(out.validity)) = NumIndices
        /\ \A i \in Positions :
             IF ~IndexValid(i) \/ ~IsValid(source.validity, Payload(i))
             THEN ~OutValid(i)
             ELSE /\ OutValid(i)
                  /\ SliceOk(out.values, At(out.offsets, i), At(out.offsets, i + 1))
                  /\ OutBytes(i) = ElemBytes(source, Payload(i))

\* C1's case: the both-have-nulls path returned a null for a null index, a null
\* for an invalid source element or a null index, and the bytes <<2, 3>> for a valid one.
C1_Witness ==
    /\ taken.path = "take_values_indices_validity"
    /\ ~out.panic
    /\ \E i \in Positions : ~IndexValid(i) /\ ~OutValid(i)
    /\ \E i \in Positions : IndexValid(i) /\ OutValid(i) /\ OutBytes(i) = <<2, 3>>

\* C2: whenever a path returns, its offsets buffer has len(indices) + 1
\* entries, starts at 0 and never decreases.
C2_TakeOffsetsShape ==
    (taken.path # "none" /\ ~out.panic) =>
        /\ Len(out.offsets) = NumIndices + 1
        /\ out.offsets[1] = 0
        /\ \A i \in Positions : At(out.offsets, i) <= At(out.offsets, i + 1)

\* C2's case: take_no_validity returned two elements, a longer one first.
C2_Witness ==
    /\ taken.path = "take_no_validity"
    /\ ~out.panic
    /\ NumIndices = 2
    /\ OutWidth(0) > OutWidth(1)

\* C3 as claimed: in take_indices_validity every null index gives a zero-width
\* invalid slot, whatever its payload.
C3_NullIndexZeroWidth ==
    (taken.path = "take_indices_validity") =>
        /\ ~out.panic
        /\ \A i \in Positions : ~IndexValid(i) => (OutWidth(i) = 0 /\ ~OutValid(i))

\* C3 as amended: in take_indices_validity a null index gives an invalid slot
\* and no panic, whatever its payload; the slot is zero-width when the
\* payload + 1 is beyond the source offsets, and otherwise the source is read:
\* the slot holds the bytes of the source element the payload addresses.
C3_NullIndexSlot ==
    (taken.path = "take_indices_validity") =>
        /\ ~out.panic
        /\ \A i \in Positions : ~IndexValid(i) =>
             /\ ~OutValid(i)
             /\ IF PastOffsets(i) THEN OutWidth(i) = 0
                ELSE OutBytes(i) = ElemBytes(source, Payload(i))

\* C3's case: a null index whose payload addresses a non-empty source element,
\* and one whose payload is out of range.
C3_Witness ==
    /\ taken.path = "take_indices_validity"
    /\ \E i \in Positions : ~IndexValid(i) /\ ~PastOffsets(i) /\ OutWidth(i) > 0
    /\ \E i \in Positions : ~IndexValid(i) /\ PastOffsets(i)

\* C4 as claimed: in take_indices_validity an index whose index + 1 is beyond
\* the source offsets never panics and gives a zero-width invalid slot.
C4_OutOfRangeInvalid ==
    (taken.path = "take_indices_validity") =>
        /\ ~out.panic
        /\ \A i \in Positions : PastOffsets(i) => (OutWidth(i) = 0 /\ ~OutValid(i))

\* C4 as amended: in take_indices_validity an index whose index + 1 is beyond
\* the source offsets never panics and gives a zero-width slot (the running
\* length does not advance); the slot is invalid exactly when the index is
\* null, since the output validity is the index array's validity.
C4_OutOfRangeEmpty ==
    (taken.path = "take_indices_validity") =>
        /\ ~out.panic
        /\ \A i \in Positions : PastOffsets(i) =>
             /\ At(out.offsets, i + 1) = At(out.offsets, i)
             /\ OutValid(i) = IndexValid(i)

\* C4's case: an out-of-range index after an element that advanced the
\* running length.
C4_Witness ==
    /\ taken.path = "take_indices_validity"
    /\ NumIndices = 2
    /\ OutWidth(0) > 0
    /\ PastOffsets(1)

(***************************************************************************)
(* Properties of GrowableNull.                                             *)
(***************************************************************************)
\* C5: the array produced by as_arc, as_box or From<GrowableNull> has for
\* length the sum of the len and additional arguments passed to extend and
\* extend_validity since new().
C5_GrowableLengthLaw ==
    IsSome(finished) => Unwrap(finished).array.length = Unwrap(finished).requested

\* C5's case: an array of length 3 produced after several calls.
C5_Witness ==
    /\ IsSome(finished)
    /\ Unwrap(finished).how = "from"
    /\ Unwrap(finished).requested = 3
    /\ Unwrap(finished).array.length = 3

(***************************************************************************)
(* Properties of the bridge.                                               *)
(***************************************************************************)
Exported == Unwrap(descriptor)
Imported == Unwrap(imported.array)
\* the descriptor is the export of array
IsExportOfArray == IsSome(descriptor) /\ Exported = Export(array, "Boolean")

C7_WrongTypeIsErr ==
    (IsSome(descriptor) /\ Exported.data_type # "Boolean" /\ imported.tag # "none") =>
        (imported.tag = "Err" /\ imported.array = None)

(***************************************************************************)
(* Properties of the remainder kernels.                                    *)
(***************************************************************************)
Rhs == Unwrap(rhs.array)
Scalar == Unwrap(rhs.scalar)
Res == result.out
ResArray == Unwrap(Res.array)
SameType == lhs.data_type = Rhs.data_type
SameLen == Len(lhs.values) = Len(Rhs.values)
Elements == 1..Len(lhs.values)
PairFaults(i) == RemFaults(lhs.native, lhs.values[i], Rhs.values[i])
ValidAt(validity, i) == IsValid(validity, i - 1)

\* v is the remainder of a by b (b neither 0 nor MIN): a - v is a multiple of
\* b, |v| < |b|, and v is 0 or has the sign of a.
IsRemainder(a, b, v) ==
    LET bb == IF b < 0 THEN -b ELSE b
    IN /\ -bb < v /\ v < bb
       /\ (v = 0) \/ (v < 0 /\ a < 0) \/ (v > 0 /\ a > 0)
       /\ (a - v) % bb = 0

\* C8: rem and checked_rem on operands of different logical types return the
\* logical-type error, and on operands of different lengths an error; either
\* way no element was processed and no array is returned.
C8_RemValidatesFirst ==
    (result.op \in {"rem", "checked_rem"}) =>
        /\ ~SameType =>
             /\ Res.tag = "Err"
             /\ Res.err = "Arrays must have the same logical type"
             /\ Res.array = None
             /\ Res.applied = 0
        /\ ~SameLen =>
             /\ Res.tag = "Err"
             /\ Res.array = None
             /\ Res.applied = 0

\* C8's case: rem on arrays of one type and different lengths, the divisors
\* holding a zero, returned the length error.
C8_Witness ==
    /\ result.op = "rem"
    /\ SameType /\ ~SameLen
    /\ \E i \in 1..Len(Rhs.values) : Rhs.values[i] = 0
    /\ Res.tag = "Err"
    /\ Res.err = "Arrays must have the same length"

\* C9: on operands of equal type and length checked_rem returns an array of
\* that length; element i is valid, and the remainder of lhs[i] by rhs[i],
\* exactly when both are valid, rhs[i] # 0 and the pair is not MIN % -1.
\* checked_rem_scalar by 0 returns an array of the same length with every
\* element invalid.
C9_CheckedRemAbsorbs ==
    /\ (result.op = "checked_rem" /\ SameType /\ SameLen) =>
         /\ Res.tag = "Ok"
         /\ Len(ResArray.values) = Len(lhs.values)
         /\ ResArray.data_type = lhs.data_type
         /\ IsSome(ResArray.validity) => Len(Unwrap(ResArray.validity)) = Len(lhs.values)
         /\ \A i \in Elements :
              LET representable ==
                    /\ ValidAt(lhs.validity, i) /\ ValidAt(Rhs.validity, i)
                    /\ Rhs.values[i] # 0
                    /\ ~(lhs.values[i] = MinOf(lhs.native) /\ Rhs.values[i] = -1)
              IN /\ ValidAt(ResArray.validity, i) = representable
                 /\ representable =>
                      IsRemainder(lhs.values[i], Rhs.values[i], ResArray.values[i])
    /\ (result.op = "checked_rem_scalar" /\ Scalar = 0) =>
         /\ Res.tag = "Ok"
         /\ Len(ResArray.values) = Len(lhs.values)
         /\ \A i \in Elements : ~ValidAt(ResArray.validity, i)

\* C9's case: checked_rem made MIN % -1 null and -7 % 3 the valid -1.
C9_Witness ==
    /\ result.op = "checked_rem"
    /\ SameType /\ SameLen
    /\ \E i \in Elements :
         /\ lhs.values[i] = MinOf(lhs.native) /\ Rhs.values[i] = -1
         /\ ValidAt(lhs.validity, i) /\ ValidAt(Rhs.validity, i)
         /\ ~ValidAt(ResArray.validity, i)
    /\ \E i \in Elements :
         /\ lhs.values[i] = -7 /\ Rhs.values[i] = 3
         /\ ValidAt(ResArray.validity, i)
         /\ ResArray.values[i] = -1

GenericPath == unary_rem(lhs, Scalar, lhs.data_type)

\* C11: on a u8 array rem_scalar, which takes the strength-reduced path,
\* faults exactly when the generic per-element path a % rhs faults on the
\* same array and divisor, and otherwise returns the same array (length,
\* validity and every value), empty and all-null arrays and the divisors
\* 0, 1 and u8::MAX included.
C11_FastPathIsGeneric ==
    (result.op = "rem_scalar" /\ NativeDataType(lhs.native) = "UInt8") =>
        /\ (Res.tag = "Panic") = (GenericPath.tag = "Panic")
        /\ Res.tag = "Ok" => (GenericPath.tag = "Ok" /\ Res.array = GenericPath.array)

\* Every position has a valid divisor, not zero, and no pair is MIN % -1.
DivisorsValidNoFault ==
    \A i \in Elements : ValidAt(Rhs.validity, i) /\ ~PairFaults(i)

\* Equality of arrays: type, length, validity of each position and the
\* values of the valid positions.
ArraysEqual(x, y) ==
    /\ x.data_type = y.data_type
    /\ Len(x.values) = Len(y.values)
    /\ \A i \in 1..Len(x.values) :
         /\ ValidAt(x.validity, i) = ValidAt(y.validity, i)
         /\ ValidAt(x.validity, i) => x.values[i] = y.values[i]

CastOut == Unwrap(cast.out)
CastElements == 1..Len(from.values)
Abs(x) == IF x < 0 THEN -x ELSE x

\* The value of O congruent to the integer v modulo 2^w, w the width of O.
WrapsTo(o, v, w) ==
    /\ IntMin(o) <= w /\ w <= IntMax(o)
    /\ IF IntMin(o) <= v /\ v <= IntMax(o) THEN w = v ELSE (w - v) % 256 = 0

\* O holds the value x of type I exactly.
Representable(i, o, x) ==
    IF IsFloat(i)
    THEN ~x.nan /\ x.halves % 2 = 0 /\ IntMin(o) <= x.halves \div 2 /\ x.halves \div 2 <= IntMax(o)
    ELSE IntMin(o) <= x /\ x <= IntMax(o)

\* the integer w is the value x of type I
SameNumber(i, x, w) == IF IsFloat(i) THEN (~x.nan /\ x.halves = 2 * w) ELSE w = x

\* the integer w is x without its fraction
IsTruncation(x, w) ==
    /\ ~x.nan
    /\ Abs(2 * w) <= Abs(x.halves) /\ Abs(x.halves) < Abs(2 * w) + 2
    /\ w = 0 \/ (w > 0) = (x.halves > 0)

\* C14 as claimed: a primitive cast keeps the length; with wrapped unset
\* element i is invalid when the source is invalid or O cannot represent the
\* source value, and otherwise valid with the same numeric value; with
\* wrapped set the validity is the source's and the value is the source
\* value modulo 2^w in O.
C14_CastFormsExact ==
    (cast.op = "primitive_to_primitive_dyn") =>
        /\ Len(CastOut.values) = Len(from.values)
        /\ ~cast.wrapped =>
             \A k \in CastElements :
                LET ok == /\ ValidAt(from.validity, k)
                          /\ Representable(from.native, cast.to, from.values[k])
                IN /\ ValidAt(CastOut.validity, k) = ok
                   /\ ok => SameNumber(from.native, from.values[k], CastOut.values[k])
        /\ cast.wrapped =>
             /\ CastOut.validity = from.validity
             /\ \A k \in CastElements :
                  IF IsFloat(from.native)
                  THEN from.values[k].nan \/
                       WrapsTo(cast.to, div_op(from.values[k].halves, 2), CastOut.values[k])
                  ELSE WrapsTo(cast.to, from.values[k], CastOut.values[k])

\* C14 as amended: the claim for an integer source; for a float source the
\* checked form makes an element invalid when the source is invalid, NaN, or
\* its truncation toward zero is outside O's range, and otherwise valid
\* with that truncation; the wrapping form keeps the validity and gives 0
\* for NaN and otherwise the truncation saturated to O's range.
C14_CastForms ==
    (cast.op = "primitive_to_primitive_dyn") =>
        /\ Len(CastOut.values) = Len(from.values)
        /\ CastOut.native = cast.to
        /\ (~cast.wrapped /\ ~IsFloat(from.native)) =>
             \A k \in CastElements :
                LET ok == /\ ValidAt(from.validity, k)
                          /\ Representable(from.native, cast.to, from.values[k])
                IN /\ ValidAt(CastOut.validity, k) = ok
                   /\ ok => CastOut.values[k] = from.values[k]
        /\ (~cast.wrapped /\ IsFloat(from.native)) =>
             \A k \in CastElements :
                LET x == from.values[k]
                    ok == /\ ValidAt(from.validity, k)
                          /\ ~x.nan
                          /\ \E w \in {x.halves \div 2, x.halves \div 2 + 1} :
                                /\ IntMin(cast.to) <= w /\ w <= IntMax(cast.to)
                                /\ IsTruncation(x, w)
                IN /\ ValidAt(CastOut.validity, k) = ok
                   /\ ok => IsTruncation(x, CastOut.values[k])
        /\ cast.wrapped =>
             /\ CastOut.validity = from.validity
             /\ \A k \in CastElements :
                  LET x == from.values[k]
                      w == CastOut.values[k]
                  IN /\ IntMin(cast.to) <= w /\ w <= IntMax(cast.to)
                     /\ IF ~IsFloat(from.native) THEN WrapsTo(cast.to, x, w)
                        ELSE IF x.nan THEN w = 0
                        ELSE \/ IsTruncation(x, w)
                             \/ w = IntMax(cast.to) /\ x.halves > 2 * w
                             \/ w = IntMin(cast.to) /\ x.halves < 2 * w

\* C14's case: the checked cast of i32 to u8 made a valid 300 null and kept
\* a valid 2.
C14_Witness ==
    /\ cast.op = "primitive_to_primitive_dyn"
    /\ ~cast.wrapped
    /\ from.native = "i32" /\ cast.to = "u8"
    /\ \E k \in CastElements :
         /\ from.values[k] = 300 /\ ValidAt(from.validity, k)
         /\ ~ValidAt(CastOut.validity, k)
    /\ \E k \in CastElements :
         /\ from.values[k] = 2 /\ ValidAt(from.validity, k)
         /\ ValidAt(CastOut.validity, k) /\ CastOut.values[k] = 2

\* The units from the coarsest to the finest, and the number of the finer
\* of two units in one of the coarser.
UnitRank(unit) ==
    IF unit = "Second" THEN 0 ELSE IF unit = "Millisecond" THEN 1
    ELSE IF unit = "Microsecond" THEN 2 ELSE 3
Coarser(u, v) == UnitRank(u) < UnitRank(v)
Finer(u, v) == UnitRank(u) > UnitRank(v)
Thousands(n) == IF n = 0 THEN 1 ELSE IF n = 1 THEN 1000 ELSE IF n = 2 THEN 1000000 ELSE 1000000000
UnitRatio(u, v) == Thousands(Abs(UnitRank(u) - UnitRank(v)))

\* y is x times r; q is x divided by r, truncated toward zero; f is x
\* divided by r, rounded down.
IsProduct(x, r, y) == y % r = 0 /\ y \div r = x
IsTruncQuotient(x, r, q) == Abs(q) = Abs(x) \div r /\ (q = 0 \/ (q > 0) = (x > 0))
IsFloorQuotient(x, r, f) == f = x \div r

UnitRescalings ==
    {"timestamp_to_timestamp", "timestamp_to_date64", "time32_to_time64", "time64_to_time32"}

\* C15 as claimed: the rescalings between two units multiply each value by
\* the ratio of the units when the target unit is coarser than the source
\* unit and divide it by that ratio when the target unit is finer.
C15_MultiplyWhenCoarser ==
    (cast.op \in UnitRescalings) =>
        \A k \in CastElements :
            LET ratio == UnitRatio(cast.from_unit, cast.to_unit)
                x == from.values[k]
                y == CastOut.values[k]
            IN /\ Coarser(cast.to_unit, cast.from_unit) => IsProduct(x, ratio, y)
               /\ Finer(cast.to_unit, cast.from_unit) =>
                    (IsTruncQuotient(x, ratio, y) \/ IsFloorQuotient(x, ratio, y))

\* C15 as amended: the rescalings multiply each value by the ratio of the
\* units when the target unit is finer than the source unit, divide it by
\* that ratio when the target unit is coarser, and keep it when the units
\* are the same; the length and the validity are the source's.
C15_MultiplyWhenFiner ==
    (cast.op \in UnitRescalings) =>
        /\ Len(CastOut.values) = Len(from.values)
        /\ CastOut.validity = from.validity
        /\ \A k \in CastElements :
             LET ratio == UnitRatio(cast.from_unit, cast.to_unit)
                 x == from.values[k]
                 y == CastOut.values[k]
             IN /\ Finer(cast.to_unit, cast.from_unit) => IsProduct(x, ratio, y)
                /\ Coarser(cast.to_unit, cast.from_unit) => IsTruncQuotient(x, ratio, y)
                /\ cast.to_unit = cast.from_unit => y = x

\* C15's case: a timestamp in seconds became nanoseconds, 2 giving
\* 2000000000 and -1 giving -1000000000.
C15_Witness ==
    /\ cast.op = "timestamp_to_timestamp"
    /\ cast.from_unit = "Second" /\ cast.to_unit = "Nanosecond"
    /\ \E k \in CastElements : from.values[k] = 2 /\ CastOut.values[k] = 2000000000
    /\ \E k \in CastElements : from.values[k] = -1 /\ CastOut.values[k] = -1000000000

\* The ratio a dividing rescaling divides by, 0 when the cast made divides
\* by none.
DividingRatio ==
    IF cast.op = "date64_to_date32" THEN 86400000
    ELSE IF cast.op \in {"time32ms_to_time32s", "time64ns_to_time64us"} THEN 1000
    ELSE IF cast.op = "timestamp_to_date32" THEN 86400 * Thousands(UnitRank(cast.from_unit))
    ELSE IF /\ cast.op \in {"timestamp_to_timestamp", "timestamp_to_date64"}
            /\ Coarser(cast.to_unit, cast.from_unit)
         THEN UnitRatio(cast.from_unit, cast.to_unit)
    ELSE 0

\* C16 as claimed: a dividing rescaling returns floor(x / ratio) for every
\* x, the negative x that are no multiple of the ratio included.
C16_DividesRoundingDown ==
    (DividingRatio > 0) =>
        \A k \in CastElements :
            IsFloorQuotient(from.values[k], DividingRatio, CastOut.values[k])

\* C16 as amended: a dividing rescaling returns x / ratio truncated toward
\* zero: floor(x / ratio) when x >= 0 or x is a multiple of the ratio, and
\* floor(x / ratio) + 1 for a negative x that is no multiple.
C16_DividesTruncating ==
    (DividingRatio > 0) =>
        /\ Len(CastOut.values) = Len(from.values)
        /\ \A k \in CastElements :
             LET x == from.values[k]
                 q == CastOut.values[k]
             IN /\ IsTruncQuotient(x, DividingRatio, q)
                /\ IF x >= 0 \/ x % DividingRatio = 0
                   THEN IsFloorQuotient(x, DividingRatio, q)
                   ELSE IsFloorQuotient(x, DividingRatio, q - 1)

\* C16's case: time64ns_to_time64us of -1500 gave -1 and of 1500 gave 1.
C16_Witness ==
    /\ cast.op = "time64ns_to_time64us"
    /\ \E k \in CastElements : from.values[k] = -1500 /\ CastOut.values[k] = -1
    /\ \E k \in CastElements : from.values[k] = 1500 /\ CastOut.values[k] = 1

(***************************************************************************)
(* Properties of the scalars.                                              *)
(***************************************************************************)
Compared == comparison.left > 0
Left == scalars[comparison.left]
Right == scalars[comparison.right]
\* == between two scalars of the kind built
ScalarEq(x, y) == IF IsStruct(x) THEN StructScalar_eq(x, y) ELSE BooleanScalar_eq(x, y)
\* two BooleanScalars alike: the same validity and, when valid, the same value
BooleansAlike(x, y) == x.is_valid = y.is_valid /\ (x.is_valid => x.value = y.value)
ValuesAlike(xs, ys) ==
    Len(xs) = Len(ys) /\ \A k \in 1..Len(xs) : BooleansAlike(xs[k], ys[k])

\* C17: == on two BooleanScalars holds exactly when they have the same
\* validity and, when valid, the same value; on two StructScalars exactly
\* when they have the same data type, the same validity and, when valid,
\* equal values.  So two invalid scalars of one type are equal, a valid one
\* never equals an invalid one, and == is reflexive, symmetric and
\* transitive over the scalars built.
C17_ScalarEquality ==
    Compared =>
        /\ comparison.eq =
             IF IsStruct(Left)
             THEN /\ Left.data_type = Right.data_type
                  /\ Left.is_valid = Right.is_valid
                  /\ Left.is_valid => ValuesAlike(Left.values, Right.values)
             ELSE BooleansAlike(Left, Right)
        /\ (~Left.is_valid /\ ~Right.is_valid
              /\ (IsStruct(Left) => Left.data_type = Right.data_type)) => comparison.eq
        /\ Left.is_valid # Right.is_valid => ~comparison.eq
        /\ comparison.left = comparison.right => comparison.eq
        /\ comparison.eq = ScalarEq(Right, Left)
        /\ \A k \in 1..Len(scalars) :
             (comparison.eq /\ ScalarEq(Right, scalars[k])) => ScalarEq(Left, scalars[k])

\* C17's case: BooleanScalar::new(None) and new(Some(false)), which hold the
\* same value, compared unequal, and a third scalar is there for
\* transitivity.
C17_Witness ==
    /\ Compared
    /\ ~IsStruct(Left)
    /\ ~Left.is_valid /\ Right.is_valid
    /\ Left.value = Right.value
    /\ ~comparison.eq
    /\ Len(scalars) = 3

(***************************************************************************)
(* The frame of GrowableNull.                                              *)
(***************************************************************************)
LastArray == Unwrap(finished).array

\* What a step of GrowableNull may change.
GrowableFrame ==
    /\ growable'.data_type = growable.data_type
    /\ growable'.length - growable.length = requested' - requested
    /\ (finished' # finished /\ Unwrap(finished').how \in {"as_arc", "as_box"}) =>
           growable' = growable
    /\ (finished' # finished /\ IsSome(finished) /\ Unwrap(finished).requested = requested) =>
           Unwrap(finished').array = LastArray
    /\ (IsSome(finished) /\ growable'.length # growable.length) =>
           growable'.length = LastArray.length + (requested' - Unwrap(finished).requested)

\* C18: a step of GrowableNull keeps data_type and changes length only by
\* the len or additional asked, whatever source_index and start are; as_arc
\* and as_box leave the builder as it was, so a second materialization with
\* no extend in between gives an array equal to the first, and an extend
\* made after a materialization adds to the total the array had.
C18_GrowableFrame == [][GrowableFrame]_vars

\* C18's case: after as_box gave an array of length 2, an extend brought the
\* builder of a Boolean-typed NullArray to length 5.
C18_Witness ==
    /\ IsSome(finished)
    /\ Unwrap(finished).how = "as_box"
    /\ LastArray.length = 2
    /\ LastArray.data_type = "Boolean"
    /\ growable.length = 5
    /\ requested = 5

====
